---- MODULE Spec2Model ----
(***************************************************************************)
(* Model of leptos_i18n_macro/src/load_locales/locale.rs: the locale       *)
(* loader (Locale::new, Namespace::new, LocalesOrNamespaces::new), the     *)
(* schema unifier (Locale::check_locales_inner, Locale::key_missmatch)     *)
(* and the top-level reconciler (Locale::check_locales).                   *)
(*                                                                         *)
(* A Key is modelled by its name (Key compares and hashes by name).  A     *)
(* ParsedValue (parsed_value.rs) is modelled by the set of InterpolateKeys *)
(* it references; get_keys and get_keys_inner follow the specification     *)
(* text: they record every InterpolateKey of the value.                    *)
(*                                                                         *)
(* std HashMap / HashSet iterate in an order that depends on a per-process *)
(* random hash seed.  Every iteration over such a collection is modelled   *)
(* by an explicit order (hashOrder over translation keys, countOrder over  *)
(* plural types) that the calling action chooses nondeterministically.     *)
(***************************************************************************)
EXTENDS Integers, Sequences, FiniteSets, TLC

VARIABLES
    locales,     \* check_locales_inner argument: the ordered group of Locale
    namespace,   \* check_locales_inner argument: Option<&str> label
    result,      \* Result<BuildersKeysInner> of the latest call on (locales, namespace)
    history,     \* the call before it: [locales, result]
    cfg_file,    \* ConfigFile: locales, locales_dir, name_spaces
    fs,          \* file system: path -> file
    opened,      \* paths handed to File::open so far, in call order
    loaded,      \* Result<LocalesOrNamespaces> of LocalesOrNamespaces::new
    unified,     \* labels handed to check_locales_inner by check_locales, in call order
    built        \* Result<BuildersKeys> of Locale::check_locales

vars == <<locales, namespace, result, history, cfg_file, fs, opened, loaded, unified, built>>
unifierVars == <<locales, namespace, result, history>>
loaderVars == <<cfg_file, fs, opened, loaded, unified, built>>

------------------------------------------------------------------------------
(* Bounds of the explored inputs *)

\* most references to interpolation keys in a group of up to two locales
MaxRefs == 4
\* most locales in a group whose values hold at most one reference
MaxLocales == 3

AllLocaleNames == <<"en", "fr", "de", "es", "it">>
PairNames == <<"en", "fr">>
PluralTypes == {"cardinal", "ordinal"}
NamespaceLabels == {"common"}

------------------------------------------------------------------------------
(* Option<T> *)

NoneStr == [some |-> FALSE, val |-> ""]
SomeStr(s) == [some |-> TRUE, val |-> s]
NoneKeys == [some |-> FALSE, val |-> {}]
SomeKeys(s) == [some |-> TRUE, val |-> s]

(* InterpolateKey *)
Variable(name) == [tag |-> "Variable", arg |-> name]
Component(name) == [tag |-> "Component", arg |-> name]
Count(plural_type) == [tag |-> "Count", arg |-> plural_type]

\* the translation keys and the InterpolateKeys the explored locales use
KeySeq == <<"a", "b">>
InterpolateKeySeq ==
    <<Variable("name"), Variable("var_count"), Component("b"),
      Count("cardinal"), Count("ordinal")>>

(* ParsedValue::get_keys_inner: record every InterpolateKey the value
   references into the accumulator; a value without references leaves the
   accumulator as it is. *)
get_keys_inner(value, keys) ==
    IF value = {} THEN keys
    ELSE SomeKeys((IF keys.some THEN keys.val ELSE {}) \cup value)

(* ParsedValue::get_keys *)
get_keys(value) == get_keys_inner(value, NoneKeys)

(* Iteration over a HashSet / HashMap of translation keys: the members of
   `set` in the order the hasher happens to give. *)
Iter(set, hashOrder) == SelectSeq(hashOrder, LAMBDA k : k \in set)

Range(s) == {s[i] : i \in DOMAIN s}

KeyNames == Range(KeySeq)

Orders(S) == {s \in [1..Cardinality(S) -> S] : Range(s) = S}

------------------------------------------------------------------------------
(* Locale *)

Locale(name, keys) == [name |-> name, keys |-> keys]

Locale_get_keys(locale) == DOMAIN locale.keys

(* LocaleValue::new *)
LocaleValue_String == [tag |-> "String", keys |-> {}]
LocaleValue_Builder(keys) == [tag |-> "Builder", keys |-> keys]

LocaleValue_new(value) ==
    IF value.some THEN LocaleValue_Builder(value.val) ELSE LocaleValue_String

(* Result<BuildersKeysInner> *)
NoResult == [kind |-> "None"]
Ok(keys) == [kind |-> "Ok", value |-> keys]
MissingKeysInLocale(ns, keys, locale) ==
    [kind |-> "MissingKeysInLocale", namespace |-> ns, keys |-> keys, locale |-> locale]
PluralTypeMissmatch(locale_key, ns) ==
    [kind |-> "PluralTypeMissmatch", locale_key |-> locale_key, namespace |-> ns]

\* key_missmatch that never turns the blame to locale1
key_missmatch_blame_other(locale1, keys1, locale2, keys2, ns, hashOrder) ==
    LET diff == Iter(keys1 \ keys2, hashOrder)
    IN  IF diff = <<>>
        THEN MissingKeysInLocale(ns, Iter(keys2 \ keys1, hashOrder), locale2.name)
        ELSE MissingKeysInLocale(ns, diff, locale2.name)

\* key_missmatch that reports all of keys2 in place of keys2 - keys1
key_missmatch_all_keys(locale1, keys1, locale2, keys2, ns, hashOrder) ==
    LET diff == Iter(keys1 \ keys2, hashOrder)
    IN  IF diff = <<>>
        THEN MissingKeysInLocale(ns, Iter(keys2, hashOrder), locale1.name)
        ELSE MissingKeysInLocale(ns, diff, locale2.name)

(* Locale::key_missmatch *)
key_missmatch(locale1, keys1, locale2, keys2, ns, hashOrder) ==
    LET diff == Iter(keys1 \ keys2, hashOrder)
    IN  IF diff = <<>>
        THEN MissingKeysInLocale(ns, Iter(keys2 \ keys1, hashOrder), locale1.name)
        ELSE MissingKeysInLocale(ns, diff, locale2.name)

\* a comparison that only looks for reference keys the locale lacks
keys_differ_subset(first_locale_keys, keys) == ~(first_locale_keys \subseteq keys)

(* check_locales_inner, line 144: first_locale_keys != keys *)
keys_differ(first_locale_keys, keys) == first_locale_keys # keys

\* a fold that leaves mapped_keys as the first locale gave it
merge_locale_skip(mapped_keys, locale) == mapped_keys

\* a fold that only extends the sets the earlier locales already started
merge_locale_some_only(mapped_keys, locale) ==
    [key \in DOMAIN mapped_keys |->
        IF key \in DOMAIN locale.keys /\ mapped_keys[key].some
        THEN get_keys_inner(locale.keys[key], mapped_keys[key])
        ELSE mapped_keys[key]]

(* check_locales_inner, lines 154-158: fold one locale into mapped_keys *)
merge_locale(mapped_keys, locale) ==
    [key \in DOMAIN mapped_keys |->
        IF key \in DOMAIN locale.keys
        THEN get_keys_inner(locale.keys[key], mapped_keys[key])
        ELSE mapped_keys[key]]

(* check_locales_inner, lines 142-159: the loop over the locales after the
   first, from position i on.  Returns the error of the first locale whose
   key set differs, or Ok(mapped_keys). *)
RECURSIVE merge_locales(_, _, _, _, _)
merge_locales(locs, i, mapped_keys, ns, hashOrder) ==
    IF i > Len(locs) THEN Ok(mapped_keys)
    ELSE LET first_locale == locs[1]
             first_locale_keys == Locale_get_keys(first_locale)
             locale == locs[i]
             keys == Locale_get_keys(locale)
         IN  IF keys_differ(first_locale_keys, keys)
             THEN key_missmatch(first_locale, first_locale_keys, locale, keys, ns, hashOrder)
             ELSE merge_locales(locs, i + 1, merge_locale(mapped_keys, locale), ns, hashOrder)

(* check_locales_inner, lines 166-169: the first Count entry the set's
   iteration yields *)
count_type(keys, countOrder) ==
    LET present == SelectSeq(countOrder, LAMBDA p : Count(p) \in keys)
    IN  IF present = <<>> THEN NoneStr ELSE SomeStr(present[1])

\* the comparison of line 171 with == in place of !=
plural_type_mismatch_eq(keys, ct) ==
    \E key \in keys : key.tag = "Count" /\ key.arg = ct

(* check_locales_inner, line 171 *)
plural_type_mismatch(keys, ct) ==
    \E key \in keys : key.tag = "Count" /\ key.arg # ct

\* a retain that drops every Variable entry
retain_keys_no_variable(keys) == {key \in keys : key.tag # "Variable"}

(* check_locales_inner, lines 182-184 *)
retain_keys(keys) == {key \in keys : ~(key.tag = "Variable" /\ key.arg = "var_count")}

(* check_locales_inner, lines 161-186: the loop over the entries of
   mapped_keys that hold Some(set), in iteration order `order` *)
RECURSIVE plural_check(_, _, _, _)
plural_check(order, mapped_keys, ns, countOrder) ==
    IF order = <<>> THEN Ok(mapped_keys)
    ELSE LET locale_key == Head(order)
             keys == mapped_keys[locale_key].val
             ct == count_type(keys, countOrder)
         IN  IF ct.some
             THEN IF plural_type_mismatch(keys, ct.val)
                  THEN PluralTypeMissmatch(locale_key, ns)
                  ELSE plural_check(Tail(order),
                           [mapped_keys EXCEPT ![locale_key] = SomeKeys(retain_keys(keys))],
                           ns, countOrder)
             ELSE plural_check(Tail(order), mapped_keys, ns, countOrder)

(* Locale::check_locales_inner *)
check_locales_inner(locs, ns, hashOrder, countOrder) ==
    LET first_locale == locs[1]
        mapped_keys == [key \in DOMAIN first_locale.keys |-> get_keys(first_locale.keys[key])]
        merged == merge_locales(locs, 2, mapped_keys, ns, hashOrder)
    IN  IF merged.kind # "Ok" THEN merged
        ELSE LET order == Iter({key \in DOMAIN merged.value : merged.value[key].some}, hashOrder)
                 checked == plural_check(order, merged.value, ns, countOrder)
             IN  IF checked.kind # "Ok" THEN checked
                 ELSE Ok([key \in DOMAIN checked.value |-> LocaleValue_new(checked.value[key])])

(* every result check_locales_inner can give on one input, over the
   iteration orders of its hash collections *)
Outcomes(locs, ns) ==
    {check_locales_inner(locs, ns, h, c) : h \in Orders(KeyNames), c \in Orders(PluralTypes)}

------------------------------------------------------------------------------
(* Input groups *)

\* the subsets of the set of numbers S that have at most n members
RECURSIVE SubsetsUpTo(_, _)
SubsetsUpTo(S, n) ==
    IF n = 0 \/ S = {} THEN {{}}
    ELSE LET x == CHOOSE y \in S : \A z \in S : y <= z
             rest == S \ {x}
         IN  SubsetsUpTo(rest, n) \cup {{x} \cup s : s \in SubsetsUpTo(rest, n - 1)}

\* a reference is numbered by its locale i, translation key k and
\* InterpolateKey r
Slot(i, k, r) == ((i - 1) * Len(KeySeq) + (k - 1)) * Len(InterpolateKeySeq) + r

KeyIndex(key) == CHOOSE k \in DOMAIN KeySeq : KeySeq[k] = key

\* the references a group may hold when its locales have the key sets ks
Usable(n, ks) ==
    UNION {{Slot(i, k, r) : k \in ks[i], r \in DOMAIN InterpolateKeySeq} : i \in 1..n}

\* the group over the locale names `names` whose locales have the key sets
\* ks and whose values hold the references refs
Group(names, ks, refs) ==
    [i \in 1..Len(names) |->
        Locale(names[i],
               [key \in {KeySeq[k] : k \in ks[i]} |->
                   {InterpolateKeySeq[r] :
                       r \in {q \in DOMAIN InterpolateKeySeq :
                                 Slot(i, KeyIndex(key), q) \in refs}}])]

\* a value has at most one plural selector, hence at most one Count entry
\* (plural selectors do not nest)
OnePluralPerValue(group) ==
    \A i \in DOMAIN group : \A key \in DOMAIN group[i].keys :
        Cardinality({ik \in group[i].keys[key] : ik.tag = "Count"}) <= 1

\* locales is a group over `names`, of any key sets, whose values hold at
\* most maxRefs references in total
InitGroup(names, maxRefs) ==
    \E ks \in [1..Len(names) -> SUBSET DOMAIN KeySeq] :
        \E refs \in SubsetsUpTo(Usable(Len(names), ks), maxRefs) :
            /\ OnePluralPerValue(Group(names, ks, refs))
            /\ locales = Group(names, ks, refs)

\* groups of up to two locales with up to MaxRefs references, and groups
\* of up to MaxLocales locales with at most one reference
InitLocales ==
    \/ \E n \in 1..Len(PairNames) : InitGroup(SubSeq(PairNames, 1, n), MaxRefs)
    \/ \E n \in 1..MaxLocales : InitGroup(SubSeq(AllLocaleNames, 1, n), 1)

Labels == {NoneStr} \cup {SomeStr(l) : l \in NamespaceLabels}

Swap(s, i, j) == [s EXCEPT ![i] = s[j], ![j] = s[i]]

NoHistory == [locales |-> <<>>, result |-> NoResult]

------------------------------------------------------------------------------
(* Schema unifier: calls of check_locales_inner *)

Init ==
    /\ InitLocales
    /\ namespace \in Labels
    /\ result = NoResult
    /\ history = NoHistory
    /\ cfg_file = <<>>
    /\ fs = <<>>
    /\ opened = <<>>
    /\ loaded = NoResult
    /\ unified = <<>>
    /\ built = NoResult

\* check_locales_inner(&locales, namespace)
CheckLocalesInner ==
    /\ result = NoResult
    /\ result' \in Outcomes(locales, namespace)
    /\ UNCHANGED <<locales, namespace, history>>
    /\ UNCHANGED loaderVars

\* a further run of check_locales_inner on the same locales, in the same
\* order (i = j) or with two of them exchanged
CheckLocalesInnerAgain ==
    /\ result # NoResult
    /\ history = NoHistory
    /\ \E i, j \in 1..Len(locales) :
          /\ i <= j
          /\ locales' = Swap(locales, i, j)
          /\ result' \in Outcomes(locales', namespace)
    /\ history' = [locales |-> locales, result |-> result]
    /\ UNCHANGED namespace
    /\ UNCHANGED loaderVars

Next == CheckLocalesInner \/ CheckLocalesInnerAgain

Spec == Init /\ [][Next]_vars

------------------------------------------------------------------------------
(* Resource files *)

\* a file: absent, or present with content that is a key-to-value map (its
\* entries in document order, each value parsable or not) or not a map
Absent == [exists |-> FALSE, is_map |-> FALSE, entries |-> <<>>]
NotAMap == [exists |-> TRUE, is_map |-> FALSE, entries |-> <<>>]
MapFile(entries) == [exists |-> TRUE, is_map |-> TRUE, entries |-> entries]
Entry(key, value) == [key |-> key, parses |-> TRUE, value |-> value]
BadEntry(key) == [key |-> key, parses |-> FALSE, value |-> {}]

\* File::open, line 82
File_open(files, path) == IF path \in DOMAIN files THEN files[path] ELSE Absent

(* Result<Locale>, Result<Namespace>, Result<LocalesOrNamespaces> *)
LocaleFileNotFound(path) == [kind |-> "LocaleFileNotFound", path |-> path]
LocaleFileDeser(path) == [kind |-> "LocaleFileDeser", path |-> path]

(* HashMap::insert *)
Insert(map, key, value) ==
    [k \in DOMAIN map \cup {key} |-> IF k = key THEN value ELSE map[k]]

(* LocaleSeed::visit_map: Ok(keys), or the error of the first entry whose
   value does not parse *)
RECURSIVE visit_map(_, _)
visit_map(entries, keys) ==
    IF entries = <<>> THEN Ok(keys)
    ELSE IF ~Head(entries).parses THEN [kind |-> "Err"]
    ELSE visit_map(Tail(entries), Insert(keys, Head(entries).key, Head(entries).value))

(* LocaleSeed::deserialize *)
deserialize(locale, file) ==
    IF ~file.is_map THEN [kind |-> "Err"]
    ELSE LET keys == visit_map(file.entries, <<>>)
         IN  IF keys.kind # "Ok" THEN keys ELSE Ok(Locale(locale, keys.value))

(* Locale::new *)
Locale_new(files, path, locale) ==
    LET locale_file == File_open(files, path)
    IN  IF ~locale_file.exists THEN LocaleFileNotFound(path)
        ELSE LET de == deserialize(locale, locale_file)
             IN  IF de.kind # "Ok" THEN LocaleFileDeser(path) ELSE de

\* a path that puts the namespace directory above the locale
namespace_path_swapped(locales_dir, locale, key) ==
    locales_dir \o "/" \o key \o "/" \o locale \o ".json"

(* Namespace::new, line 43 *)
namespace_path(locales_dir, locale, key) ==
    locales_dir \o "/" \o locale \o "/" \o key \o ".json"

(* LocalesOrNamespaces::new, line 67 *)
locale_path(locales_dir, locale) == locales_dir \o "/" \o locale \o ".json"

(* The loops of lines 42-45 and 66-69, from position i on: load the file at
   paths[i] for locale_keys[i] and push the Locale.  Returns the Result of
   the loop and the paths opened. *)
RECURSIVE load_locales(_, _, _, _, _, _)
load_locales(files, paths, locale_keys, i, locs, log) ==
    IF i > Len(locale_keys) THEN [result |-> Ok(locs), opened |-> log]
    ELSE LET new == Locale_new(files, paths[i], locale_keys[i])
         IN  IF new.kind # "Ok" THEN [result |-> new, opened |-> Append(log, paths[i])]
             ELSE load_locales(files, paths, locale_keys, i + 1,
                               Append(locs, new.value), Append(log, paths[i]))

(* Namespace::new *)
Namespace_new(files, locales_dir, key, locale_keys) ==
    LET paths == [i \in DOMAIN locale_keys |-> namespace_path(locales_dir, locale_keys[i], key)]
        got == load_locales(files, paths, locale_keys, 1, <<>>, <<>>)
    IN  IF got.result.kind # "Ok" THEN got
        ELSE [result |-> Ok([key |-> key, locales |-> got.result.value]), opened |-> got.opened]

(* LocalesOrNamespaces::new, lines 56-62: the loop over the namespaces *)
RECURSIVE load_namespaces(_, _, _, _, _)
load_namespaces(files, cfg, i, namespaces, log) ==
    IF i > Len(cfg.name_spaces.val)
    THEN [result |-> Ok([tag |-> "NameSpaces", namespaces |-> namespaces]), opened |-> log]
    ELSE LET got == Namespace_new(files, cfg.locales_dir, cfg.name_spaces.val[i], cfg.locales)
         IN  IF got.result.kind # "Ok"
             THEN [result |-> got.result, opened |-> log \o got.opened]
             ELSE load_namespaces(files, cfg, i + 1,
                                  Append(namespaces, got.result.value), log \o got.opened)

(* LocalesOrNamespaces::new *)
LocalesOrNamespaces_new(files, cfg) ==
    IF cfg.name_spaces.some
    THEN load_namespaces(files, cfg, 1, <<>>, <<>>)
    ELSE LET paths == [i \in DOMAIN cfg.locales |-> locale_path(cfg.locales_dir, cfg.locales[i])]
             got == load_locales(files, paths, cfg.locales, 1, <<>>, <<>>)
         IN  IF got.result.kind # "Ok" THEN got
             ELSE [result |-> Ok([tag |-> "Locales", locales |-> got.result.value]),
                   opened |-> got.opened]

------------------------------------------------------------------------------
(* Top-level reconciler *)

\* a label that leaves the namespace out
namespace_label_none(ns) == NoneStr

(* check_locales, line 202: Some(&namespace.key.name) *)
namespace_label(ns) == SomeStr(ns.key)

(* check_locales, lines 200-204: the loop over the namespaces, from
   position i on.  Returns the Result of the loop and the labels handed to
   check_locales_inner. *)
RECURSIVE check_namespaces(_, _, _, _, _, _)
check_namespaces(namespaces, i, keys, log, hashOrder, countOrder) ==
    IF i > Len(namespaces)
    THEN [result |-> Ok([tag |-> "NameSpaces", namespaces |-> namespaces, keys |-> keys]),
          unified |-> log]
    ELSE LET label == namespace_label(namespaces[i])
             k == check_locales_inner(namespaces[i].locales, label, hashOrder, countOrder)
         IN  IF k.kind # "Ok" THEN [result |-> k, unified |-> Append(log, label)]
             ELSE check_namespaces(namespaces, i + 1, Insert(keys, namespaces[i].key, k.value),
                                   Append(log, label), hashOrder, countOrder)

(* Locale::check_locales.  One pair of iteration orders serves all the
   calls of check_locales_inner: only the call that fails reads them. *)
check_locales(input, hashOrder, countOrder) ==
    IF input.tag = "NameSpaces"
    THEN check_namespaces(input.namespaces, 1, <<>>, <<>>, hashOrder, countOrder)
    ELSE LET keys == check_locales_inner(input.locales, NoneStr, hashOrder, countOrder)
         IN  IF keys.kind # "Ok" THEN [result |-> keys, unified |-> <<NoneStr>>]
             ELSE [result |-> Ok([tag |-> "Locales", locales |-> input.locales,
                                  keys |-> keys.value]),
                   unified |-> <<NoneStr>>]

------------------------------------------------------------------------------
(* Loading and reconciling a configuration *)

NoneSeq == [some |-> FALSE, val |-> <<>>]
SomeSeq(s) == [some |-> TRUE, val |-> s]

ConfigFile(locale_keys, name_spaces) ==
    [locales |-> locale_keys, locales_dir |-> "locales", name_spaces |-> name_spaces]

\* the configurations explored: one or two locales, without namespaces or
\* with up to two; one locale with three namespaces
Configs ==
    {ConfigFile(l, n) : l \in {<<"en">>, <<"en", "fr">>},
                        n \in {NoneSeq, SomeSeq(<<>>), SomeSeq(<<"common">>),
                               SomeSeq(<<"common", "home">>)}}
      \cup {ConfigFile(<<"en">>, SomeSeq(<<"common", "home", "blog">>))}

\* the files explored
Files ==
    { Absent,
      NotAMap,
      MapFile(<<>>),
      MapFile(<<Entry("a", {})>>),
      MapFile(<<Entry("a", {Count("cardinal")})>>),
      MapFile(<<Entry("a", {Count("ordinal")})>>),
      MapFile(<<Entry("a", {}), BadEntry("b")>>),
      MapFile(<<Entry("a", {Variable("name")}), Entry("b", {}), Entry("a", {})>>) }

\* the paths the configuration names, in configuration order
ConfigPaths(cfg) ==
    IF cfg.name_spaces.some
    THEN LET nl == Len(cfg.locales)
             ns == cfg.name_spaces.val
         IN  [p \in 1..(Len(ns) * nl) |->
                cfg.locales_dir \o "/" \o cfg.locales[((p - 1) % nl) + 1] \o "/"
                    \o ns[((p - 1) \div nl) + 1] \o ".json"]
    ELSE [p \in DOMAIN cfg.locales |-> cfg.locales_dir \o "/" \o cfg.locales[p] \o ".json"]

InitLoad ==
    /\ cfg_file \in Configs
    /\ fs \in [Range(ConfigPaths(cfg_file)) -> Files]
    /\ opened = <<>>
    /\ loaded = NoResult
    /\ unified = <<>>
    /\ built = NoResult
    /\ locales = <<>>
    /\ namespace = NoneStr
    /\ result = NoResult
    /\ history = NoHistory

\* LocalesOrNamespaces::new(&cfg_file)
LoadLocales ==
    /\ loaded = NoResult
    /\ LET got == LocalesOrNamespaces_new(fs, cfg_file)
       IN  /\ loaded' = got.result
           /\ opened' = got.opened
    /\ UNCHANGED <<cfg_file, fs, unified, built>>
    /\ UNCHANGED unifierVars

\* Locale::check_locales(locales), on the loaded locales
CheckLocales ==
    /\ loaded.kind = "Ok"
    /\ built = NoResult
    /\ \E hashOrder \in Orders(KeyNames), countOrder \in Orders(PluralTypes) :
          LET got == check_locales(loaded.value, hashOrder, countOrder)
          IN  /\ built' = got.result
              /\ unified' = got.unified
    /\ UNCHANGED <<cfg_file, fs, opened, loaded>>
    /\ UNCHANGED unifierVars

NextLoad == LoadLocales \/ CheckLocales

SpecLoad == InitLoad /\ [][NextLoad]_vars

------------------------------------------------------------------------------
(* Properties of check_locales_inner *)

SameKeySets(locs) ==
    \A i \in DOMAIN locs : Locale_get_keys(locs[i]) = Locale_get_keys(locs[1])

\* the InterpolateKeys that the locales' values for `key` reference
Referenced(locs, key) ==
    UNION {locs[i].keys[key] : i \in {j \in DOMAIN locs : key \in DOMAIN locs[j].keys}}

CountTypes(keys) == {ik.arg : ik \in {x \in keys : x.tag = "Count"}}

\* the values for `key` use at least two plural taxonomies
Conflict(locs, key) == Cardinality(CountTypes(Referenced(locs, key))) >= 2

NoConflict(locs) == \A key \in DOMAIN locs[1].keys : ~Conflict(locs, key)

\* position of the earliest locale whose key set differs from the first's
FirstDiffering(locs) ==
    CHOOSE i \in DOMAIN locs :
        /\ Locale_get_keys(locs[i]) # Locale_get_keys(locs[1])
        /\ \A j \in 1..(i - 1) : Locale_get_keys(locs[j]) = Locale_get_keys(locs[1])

NamedLocale(locs, name) == CHOOSE l \in Range(locs) : l.name = name

\* C1: a successful check_locales_inner returns a map over exactly the keys
\* of the first locale; a key no locale gives a reference maps to String,
\* any other key maps to Builder of the union of the references of all the
\* locales, less Variable "var_count" when the union holds a Count; a
\* Builder set is never empty.
C1_SchemaIsUnion ==
    result.kind = "Ok" =>
        /\ DOMAIN result.value = DOMAIN locales[1].keys
        /\ \A key \in DOMAIN result.value :
              LET union == Referenced(locales, key)
                  expected == IF CountTypes(union) # {}
                              THEN union \ {Variable("var_count")}
                              ELSE union
              IN  /\ union = {} => result.value[key] = LocaleValue_String
                  /\ union # {} =>
                        /\ result.value[key] = LocaleValue_Builder(expected)
                        /\ result.value[key].keys # {}

\* a success where a key's set is strictly larger than what two of the
\* locales reference, next to a key that maps to String
C1_Witness ==
    /\ result.kind = "Ok"
    /\ \E key \in DOMAIN result.value :
          /\ result.value[key].tag = "Builder"
          /\ \E i, j \in DOMAIN locales :
                /\ locales[i].keys[key] # {}
                /\ locales[j].keys[key] # {}
                /\ locales[i].keys[key] \cap locales[j].keys[key] = {}
    /\ \E key \in DOMAIN result.value : result.value[key].tag = "String"

\* C2: check_locales_inner returns MissingKeysInLocale exactly when some
\* locale's key set differs from the first locale's, whatever the values hold.
C2_MissingKeysIffKeySetsDiffer ==
    result.kind # "None" =>
        (result.kind = "MissingKeysInLocale" <=> ~SameKeySets(locales))

\* MissingKeysInLocale on a group in which a shared key has conflicting
\* plural taxonomies
C2_Witness ==
    /\ result.kind = "MissingKeysInLocale"
    /\ \E key \in KeyNames : Conflict(locales, key)

\* C3: MissingKeysInLocale is computed from the first locale R and the
\* earliest locale L whose key set differs: if R has keys L lacks, it names
\* L with the keys keys(R) - keys(L), otherwise it names R with the keys
\* keys(L) - keys(R); the key list is non-empty, holds no key of the named
\* locale, and the namespace is the label passed in.
C3_MissingKeysPayload ==
    result.kind = "MissingKeysInLocale" =>
        LET R == locales[1]
            L == locales[FirstDiffering(locales)]
            RK == Locale_get_keys(R)
            LK == Locale_get_keys(L)
        IN  /\ result.namespace = namespace
            /\ result.keys # <<>>
            /\ Cardinality(Range(result.keys)) = Len(result.keys)
            /\ IF RK \ LK # {}
               THEN result.locale = L.name /\ Range(result.keys) = RK \ LK
               ELSE result.locale = R.name /\ Range(result.keys) = LK \ RK
            /\ \A key \in Range(result.keys) :
                  key \notin Locale_get_keys(NamedLocale(locales, result.locale))

\* an error that blames the first locale, in a group where two later
\* locales differ from it in different ways
C3_Witness ==
    /\ result.kind = "MissingKeysInLocale"
    /\ result.locale = locales[1].name
    /\ \E i, j \in DOMAIN locales :
          /\ i < j
          /\ Locale_get_keys(locales[i]) # Locale_get_keys(locales[1])
          /\ Locale_get_keys(locales[j]) # Locale_get_keys(locales[1])
          /\ Locale_get_keys(locales[i]) # Locale_get_keys(locales[j])

SymmetricDifference(A, B) == (A \ B) \cup (B \ A)

\* C4 as stated: the keys of MissingKeysInLocale are the symmetric
\* difference of the key sets of the first locale and of the earliest
\* differing locale.
C4_KeysAreSymmetricDifference ==
    result.kind = "MissingKeysInLocale" =>
        Range(result.keys) =
            SymmetricDifference(Locale_get_keys(locales[1]),
                                Locale_get_keys(locales[FirstDiffering(locales)]))

\* C4, amended: the keys of MissingKeysInLocale are a non-empty part of
\* that symmetric difference, and all of it exactly when one of the two
\* key sets contains the other.
C4_KeysAreOneSide ==
    result.kind = "MissingKeysInLocale" =>
        LET RK == Locale_get_keys(locales[1])
            LK == Locale_get_keys(locales[FirstDiffering(locales)])
        IN  /\ Range(result.keys) \subseteq SymmetricDifference(RK, LK)
            /\ Range(result.keys) # {}
            /\ Range(result.keys) = SymmetricDifference(RK, LK)
                  <=> (RK \subseteq LK \/ LK \subseteq RK)

\* an error for two locales that each hold a key the other lacks
C4_Witness ==
    /\ result.kind = "MissingKeysInLocale"
    /\ LET RK == Locale_get_keys(locales[1])
           LK == Locale_get_keys(locales[FirstDiffering(locales)])
       IN  RK \ LK # {} /\ LK \ RK # {}

\* C5: on a group whose locales all have the same key set,
\* check_locales_inner returns PluralTypeMissmatch exactly when some key's
\* values use two plural taxonomies; the error names such a key and carries
\* the label passed in.
C5_PluralMismatchIffConflict ==
    (result.kind # "None" /\ SameKeySets(locales)) =>
        /\ result.kind = "PluralTypeMissmatch"
              <=> (\E key \in DOMAIN locales[1].keys : Conflict(locales, key))
        /\ result.kind = "PluralTypeMissmatch" =>
              /\ result.locale_key \in DOMAIN locales[1].keys
              /\ Conflict(locales, result.locale_key)
              /\ result.namespace = namespace

\* PluralTypeMissmatch on a group with a second plural key that has no
\* conflict
C5_Witness ==
    /\ result.kind = "PluralTypeMissmatch"
    /\ \E key \in DOMAIN locales[1].keys :
          /\ key # result.locale_key
          /\ Cardinality(CountTypes(Referenced(locales, key))) = 1

\* C6: when the key sets agree and no key has conflicting taxonomies the
\* call succeeds; a key whose values use a plural selector ends with exactly
\* one Count entry, without Variable "var_count" and with every other
\* Variable and Component the locales reference; a key without a plural
\* selector keeps Variable "var_count".
C6_ImplicitCountVariable ==
    (result.kind # "None" /\ SameKeySets(locales) /\ NoConflict(locales)) =>
        /\ result.kind = "Ok"
        /\ \A key \in DOMAIN locales[1].keys :
              LET union == Referenced(locales, key)
                  final == result.value[key].keys
              IN  /\ CountTypes(union) # {} =>
                        /\ result.value[key].tag = "Builder"
                        /\ Cardinality({ik \in final : ik.tag = "Count"}) = 1
                        /\ Variable("var_count") \notin final
                        /\ \A ik \in union :
                              (ik.tag # "Count" /\ ik # Variable("var_count")) => ik \in final
                  /\ (CountTypes(union) = {} /\ Variable("var_count") \in union) =>
                        /\ result.value[key].tag = "Builder"
                        /\ Variable("var_count") \in final

\* a success for a key where one locale uses the plural selector, another
\* the reserved variable, and a further Variable is referenced
C6_Witness ==
    /\ result.kind = "Ok"
    /\ \E key \in DOMAIN locales[1].keys :
          /\ Variable("name") \in Referenced(locales, key)
          /\ \E i, j \in DOMAIN locales :
                /\ CountTypes(locales[i].keys[key]) # {}
                /\ Variable("var_count") \notin locales[i].keys[key]
                /\ Variable("var_count") \in locales[j].keys[key]

\* C7: two calls on the same locales, in the same or in another order,
\* either both succeed with equal maps or both fail with the same error
\* kind.
C7_OrderInsensitive ==
    history.result.kind # "None" =>
        /\ result.kind = history.result.kind
        /\ result.kind = "Ok" => result.value = history.result.value

\* a second, successful call after the first locale changed, where the new
\* first locale gives a plain string to a key that maps to Builder
C7_Witness ==
    /\ history.result.kind = "Ok"
    /\ history.locales # locales
    /\ \E key \in DOMAIN result.value :
          /\ result.value[key].tag = "Builder"
          /\ locales[1].keys[key] = {}

\* the parts of an error that C10 requires to repeat; the key list is
\* compared as a set
ErrorReport(r) ==
    IF r.kind = "MissingKeysInLocale"
    THEN <<r.kind, r.namespace, r.locale, Range(r.keys), "">>
    ELSE <<r.kind, r.namespace, "", {}, r.locale_key>>

\* C10: two failing runs on the same input report the same error kind,
\* namespace, blamed locale and key or keys.
C10_SameErrorEveryRun ==
    (/\ history.result.kind \notin {"None", "Ok"}
     /\ history.locales = locales
     /\ result.kind \notin {"None", "Ok"})
        => ErrorReport(result) = ErrorReport(history.result)

------------------------------------------------------------------------------
(* Properties of check_locales and LocalesOrNamespaces::new *)

\* the group has locales with differing key sets or a key with
\* conflicting plural taxonomies
GroupFails(locs) == ~SameKeySets(locs) \/ ~NoConflict(locs)

Least(S) == CHOOSE i \in S : \A j \in S : i <= j

\* C8: with namespaces, check_locales unifies them in configuration order
\* and returns the error of the first failing one, labelled with its name,
\* without unifying the later ones; if none fails it returns NameSpaces
\* with the input namespaces and one schema per namespace.  Without
\* namespaces it unifies once without label and returns Locales with the
\* input locales, or that error.
C8_AllOrNothing ==
    built.kind # "None" =>
        LET input == loaded.value
        IN  IF input.tag = "NameSpaces"
            THEN LET N == input.namespaces
                     failing == {i \in DOMAIN N : GroupFails(N[i].locales)}
                 IN  IF failing = {}
                     THEN /\ built.kind = "Ok"
                          /\ built.value.tag = "NameSpaces"
                          /\ built.value.namespaces = N
                          /\ DOMAIN built.value.keys = {N[i].key : i \in DOMAIN N}
                          /\ Cardinality(DOMAIN built.value.keys) = Len(N)
                          /\ \A i \in DOMAIN N :
                                Ok(built.value.keys[N[i].key])
                                    \in Outcomes(N[i].locales, SomeStr(N[i].key))
                          /\ unified = [i \in DOMAIN N |-> SomeStr(N[i].key)]
                     ELSE LET j == Least(failing)
                          IN  /\ built.kind \in {"MissingKeysInLocale", "PluralTypeMissmatch"}
                              /\ built \in Outcomes(N[j].locales, SomeStr(N[j].key))
                              /\ built.namespace = SomeStr(N[j].key)
                              /\ unified = [i \in 1..j |-> SomeStr(N[i].key)]
            ELSE /\ unified = <<NoneStr>>
                 /\ IF GroupFails(input.locales)
                    THEN /\ built.kind \in {"MissingKeysInLocale", "PluralTypeMissmatch"}
                         /\ built \in Outcomes(input.locales, NoneStr)
                         /\ built.namespace = NoneStr
                    ELSE /\ built.kind = "Ok"
                         /\ built.value.tag = "Locales"
                         /\ built.value.locales = input.locales
                         /\ Ok(built.value.keys) \in Outcomes(input.locales, NoneStr)

\* the error of a first namespace, while a later namespace that would fail
\* too was never unified
C8_Witness ==
    /\ built.kind \in {"MissingKeysInLocale", "PluralTypeMissmatch"}
    /\ loaded.value.tag = "NameSpaces"
    /\ built.namespace = SomeStr(loaded.value.namespaces[1].key)
    /\ \E j \in DOMAIN loaded.value.namespaces :
          /\ j > Len(unified)
          /\ GroupFails(loaded.value.namespaces[j].locales)

\* the file is present, is a map and all its values parse
FileLoads(file) ==
    file.exists /\ file.is_map /\ \A i \in DOMAIN file.entries : file.entries[i].parses

\* C9: LocalesOrNamespaces::new opens the files in configuration order
\* (namespace-major, then locale order) and stops at the first one that
\* does not load: LocaleFileNotFound with its path when it is absent,
\* LocaleFileDeser with its path when its content is no map of parsable
\* values; if every file loads it returns one Locale per configured locale
\* (per namespace), in configuration order, named by its locale key.
C9_LoadStopsAtFirstFailure ==
    loaded.kind # "None" =>
        LET paths == ConfigPaths(cfg_file)
            failing == {p \in DOMAIN paths : ~FileLoads(fs[paths[p]])}
            names == cfg_file.locales
        IN  IF failing = {}
            THEN /\ loaded.kind = "Ok"
                 /\ opened = paths
                 /\ IF cfg_file.name_spaces.some
                    THEN /\ loaded.value.tag = "NameSpaces"
                         /\ Len(loaded.value.namespaces) = Len(cfg_file.name_spaces.val)
                         /\ \A n \in DOMAIN loaded.value.namespaces :
                               LET ns == loaded.value.namespaces[n]
                               IN  /\ ns.key = cfg_file.name_spaces.val[n]
                                   /\ Len(ns.locales) = Len(names)
                                   /\ \A l \in DOMAIN names : ns.locales[l].name = names[l]
                    ELSE /\ loaded.value.tag = "Locales"
                         /\ Len(loaded.value.locales) = Len(names)
                         /\ \A l \in DOMAIN names : loaded.value.locales[l].name = names[l]
            ELSE LET j == Least(failing)
                 IN  /\ opened = SubSeq(paths, 1, j)
                     /\ loaded.path = paths[j]
                     /\ loaded.kind = IF fs[paths[j]].exists
                                      THEN "LocaleFileDeser"
                                      ELSE "LocaleFileNotFound"

\* a deserialization error in a file of the second namespace, before an
\* absent file that is never opened
C9_Witness ==
    /\ loaded.kind = "LocaleFileDeser"
    /\ cfg_file.name_spaces.some
    /\ Len(opened) > Len(cfg_file.locales)
    /\ \E p \in DOMAIN ConfigPaths(cfg_file) :
          /\ p > Len(opened)
          /\ ~fs[ConfigPaths(cfg_file)[p]].exists

====
